---- MODULE Spec2Model ----
(***************************************************************************)
(* Model of the DubbedPlayer component (src/DubbedPlayer.tsx): the three   *)
(* channel audio graph, the play/pause/seek transport that keeps the two   *)
(* buffer-backed sources aligned with the video element, and the           *)
(* record-and-export pipeline.                                             *)
(*                                                                         *)
(* Time is counted in whole ticks of the video clock.  Gains are counted   *)
(* in slider steps of 0.05 (20 = 1.0, 30 = 1.5).                           *)
(*                                                                         *)
(* One action is one event handler run to completion, together with the    *)
(* React effects its state updates trigger.  The only place a handler is   *)
(* cut in two is the await of AudioContext.resume() inside play(): the     *)
(* part of play() after the await is the action PlayResume.                *)
(***************************************************************************)
EXTENDS Integers, Sequences, FiniteSets, TLC

\* ------------------------------------------------------------------ bounds
VideoDur == 3                 \* length of the video, in ticks
VoiceDur == 2                 \* length of the decoded voice buffer, in ticks
MaxNodes == 4                 \* buffer-source instances alive at once
MaxPending == 2               \* play() calls waiting on resume() at once
MaxLen == 4                   \* length of a byte buffer given to the utilities
MaxBinds == 3                 \* runs of the original-audio binding effect
MaxExports == 2               \* export requests made over a run
MaxRequests == 2              \* handleDubbing calls made over a run

\* ------------------------------------------------------------ the channels
Channels == {"voice", "bg", "original"}

\* Initial slider values: useState(1), useState(0.2), useState(0.5).
InitVolume == [voice |-> 20, bg |-> 4, original |-> 10]

\* The max attribute of each range input: 1.5, 1, 1.
SliderMax == [voice |-> 30, bg |-> 20, original |-> 20]

\* Faulty variant of SliderValues: every range input goes up to 1.5.
SliderValuesWide(ch) == {0, SliderMax["voice"]}

\* Slider positions tried by the model: the two ends of each range.
SliderValues(ch) == {0, SliderMax[ch]}

\* ------------------------------------------------------ background files
NoFile == "none"
BgFiles == {"a", "b", "bad"}

\* Whether the platform decoder accepts the file.
Decodable(f) == f # "bad"

\* Duration of the decoded background buffer, in ticks.
BgDur(f) == IF f = "a" THEN 2 ELSE 3

NoBuffer == 0

\* ------------------------------------------------- buffer-source instances
NodeIds == 1..MaxNodes
NoRef == 0
NoNode == [chan |-> "none", st |-> "free", offset |-> 0, loop |-> FALSE,
           starts |-> 0]

\* ------------------------------------------------------------- export jobs
NoJob == [type |-> "null", midPreview |-> FALSE]

\* ---------------------------------------------------- the audio utilities
\* Byte values tried in the buffers given to the utilities.
ByteValues == {0, 1, 128, 255}

\* Every byte buffer of up to n bytes.
Buffers(n) == UNION {[1..k -> ByteValues] : k \in 0..n}

\* A 32-bit unsigned value, held as two 16-bit halves.
U32(hi, lo) == [hi |-> hi, lo |-> lo]

\* ToUint32 of a small non-negative number.
ToU32(n) == U32((n \div 65536) % 65536, n % 65536)

\* ToUint32 of twice a 32-bit value: the carry out of bit 31 is lost.
TwiceU32(w) ==
  LET l == 2 * w.lo
  IN U32((2 * w.hi + l \div 65536) % 65536, l % 65536)

\* Sample rates tried: 24000, 44100, 65536 + 1 and 2^31 + 1.
SampleRates == {U32(0, 24000), U32(0, 44100), U32(1, 1), U32(32768, 1)}

\* buf with `bytes` stored from byte offset `offset` on.
writeBytes(buf, offset, bytes) ==
  [i \in 1..Len(buf) |->
     IF i > offset /\ i <= offset + Len(bytes) THEN bytes[i - offset]
     ELSE buf[i]]

\* writeString(view, offset, string) for the four tags, as char codes.
CharCodes(tag) ==
  CASE tag = "RIFF" -> <<82, 73, 70, 70>>
    [] tag = "WAVE" -> <<87, 65, 86, 69>>
    [] tag = "fmt " -> <<102, 109, 116, 32>>
    [] tag = "data" -> <<100, 97, 116, 97>>

writeString(buf, offset, tag) == writeBytes(buf, offset, CharCodes(tag))

\* Faulty variant of setUint32: the bytes are stored big-endian.
setUint32BigEndian(buf, offset, w) ==
  writeBytes(buf, offset,
             <<w.hi \div 256, w.hi % 256, w.lo \div 256, w.lo % 256>>)

\* view.setUint32(offset, w, true)
setUint32(buf, offset, w) ==
  writeBytes(buf, offset,
             <<w.lo % 256, w.lo \div 256, w.hi % 256, w.hi \div 256>>)

\* view.setUint16(offset, n, true)
setUint16(buf, offset, n) ==
  writeBytes(buf, offset, <<n % 256, (n \div 256) % 256>>)

\* createWavBlob with the number of channels and the block align as
\* parameters.
wavBytes(samples, sampleRate, numChannels, blockAlign) ==
  LET b0 == [i \in 1..(44 + Len(samples)) |-> 0]
      b1 == writeString(b0, 0, "RIFF")
      b2 == setUint32(b1, 4, ToU32(36 + Len(samples)))
      b3 == writeString(b2, 8, "WAVE")
      b4 == writeString(b3, 12, "fmt ")
      b5 == setUint32(b4, 16, ToU32(16))
      b6 == setUint16(b5, 20, 1)
      b7 == setUint16(b6, 22, numChannels)
      b8 == setUint32(b7, 24, sampleRate)
      b9 == setUint32(b8, 28, TwiceU32(sampleRate))
      b10 == setUint16(b9, 32, blockAlign)
      b11 == setUint16(b10, 34, 16)
      b12 == writeString(b11, 36, "data")
      b13 == setUint32(b12, 40, ToU32(Len(samples)))
  IN writeBytes(b13, 44, samples)

\* Faulty variant of createWavBlob: the header describes two channels.
createWavBlobStereo(samples, sampleRate) == wavBytes(samples, sampleRate, 2, 4)

\* createWavBlob(samples, sampleRate): the bytes of the blob.
createWavBlob(samples, sampleRate) == wavBytes(samples, sampleRate, 1, 2)

\* An element of Int16Array over the bytes b0, b1.
Int16(b0, b1) ==
  LET u == b0 + 256 * b1 IN IF u >= 32768 THEN u - 65536 ELSE u

\* Faulty variant of decodeAudioData: the byte pairs are read unsigned.
decodeAudioDataUnsigned(data) ==
  IF Len(data) % 2 # 0 THEN [ok |-> FALSE, error |-> "RangeError"]
  ELSE IF Len(data) \div 2 = 0
       THEN [ok |-> FALSE, error |-> "NotSupportedError"]
       ELSE [ok |-> TRUE, numberOfChannels |-> 1,
             channelData |-> [i \in 1..(Len(data) \div 2) |->
                                [num |-> data[2 * i - 1] + 256 * data[2 * i],
                                 den |-> 32768]]]

\* decodeAudioData(data, ctx) with one channel.  new Int16Array(buffer)
\* throws a RangeError when the byte length is odd, ctx.createBuffer throws
\* a NotSupportedError when asked for zero frames.  A sample is the fraction
\* num / den.
decodeAudioData(data) ==
  IF Len(data) % 2 # 0 THEN [ok |-> FALSE, error |-> "RangeError"]
  ELSE IF Len(data) \div 2 = 0
       THEN [ok |-> FALSE, error |-> "NotSupportedError"]
       ELSE [ok |-> TRUE, numberOfChannels |-> 1,
             channelData |-> [i \in 1..(Len(data) \div 2) |->
                                [num |-> Int16(data[2 * i - 1], data[2 * i]),
                                 den |-> 32768]]]

\* The voice bytes the player is mounted with: VoiceDur frames of silence.
InitAudio == [i \in 1..(2 * VoiceDur) |-> 0]

\* Voice bytes a later dubbing result may carry: one frame, an odd number of
\* bytes, no bytes at all.
VoiceInputs == {InitAudio, <<0, 128>>, <<0, 0, 1>>, <<>>}

\* The utilities have been given no input.
NoCodec == [data |-> <<>>, rate |-> U32(0, 0), wav |-> <<>>,
            decoded |-> [ok |-> FALSE, error |-> "none"], ran |-> {}]

\* ------------------------------------------------- original-audio binding
\* ref: originalSourceRef.current is set; sources: media-element sources
\* created on the video element; attempts: runs of the effect so far;
\* failures: runs in which createMediaElementSource threw; raised: an
\* exception has left the effect.
NoBinding == [ref |-> FALSE, sources |-> 0, attempts |-> 0, failures |-> 0,
              raised |-> FALSE]

\* ------------------------------------------------------- the app workflow
Videos == {"v1", "v2"}
NoVideo == "none"

\* result: the video file the request was made for and the number of the
\* request, or NoResult for null.
NoResult == [video |-> NoVideo, request |-> 0]

\* useState(AppState.IDLE), useState(null) three times, and no request.
InitApp == [state |-> "IDLE", videoFile |-> NoVideo, result |-> NoResult,
            errorMsg |-> "null", requests |-> {}, started |-> 0]

\* Errors a service step may catch: the message (or "undefined"), and the
\* search strings of handleError that the lower-cased text includes.
ErrorInputs ==
  {[message |-> "401 Unauthorized", includes |-> {"401"}],
   [message |-> "Permission denied, 429", includes |-> {"permission", "429"}],
   [message |-> "Resource exhausted", includes |-> {"resource exhausted"}],
   [message |-> "500 Internal", includes |-> {"500", "internal"}],
   [message |-> "Model overloaded", includes |-> {"overloaded"}],
   [message |-> "Blocked", includes |-> {"blocked"}],
   [message |-> "User location", includes |-> {"location"}],
   [message |-> "candidate finishReason", includes |-> {"candidate", "finishreason"}],
   [message |-> "candidate", includes |-> {"candidate"}],
   [message |-> "No audio data returned from Gemini.", includes |-> {}],
   [message |-> "undefined", includes |-> {}]}

Includes(e, strings) == e.includes \cap strings # {}

\* Faulty variant of handleError: an error it does not recognise is logged
\* and the function returns.
handleErrorReturns(e, context) ==
  IF e.includes = {} THEN [threw |-> FALSE, message |-> "undefined"]
  ELSE [threw |-> TRUE, message |-> "Invalid API Key."]

\* GeminiService.handleError(e, context): whether it threw, and the message
\* of the Error thrown.
handleError(e, context) ==
  [threw |-> TRUE,
   message |->
     IF Includes(e, {"401", "api key"}) THEN "Invalid API Key."
     ELSE IF Includes(e, {"403", "permission"}) THEN "Permission denied."
     ELSE IF Includes(e, {"429", "quota", "resource exhausted"})
       THEN "API Quota exceeded."
     ELSE IF Includes(e, {"500", "internal"})
       THEN "Gemini internal server error."
     ELSE IF Includes(e, {"503", "overloaded"})
       THEN "Gemini service is currently overloaded."
     ELSE IF Includes(e, {"safety", "blocked"})
       THEN "The content was blocked by safety filters."
     ELSE IF Includes(e, {"location", "not supported in your region"})
       THEN "Gemini API is not available in your region."
     ELSE IF Includes(e, {"candidate"}) /\ Includes(e, {"finishreason"})
       THEN "Model stopped generating unexpectedly."
     ELSE IF context = "analyze video" THEN "Failed to analyze video."
     ELSE "Failed to generate speech."]

VARIABLES
  ctxState,        \* audioContextRef.current.state
  voiceBuffer,     \* voiceBufferRef.current: duration, or NoBuffer
  bgBuffer,        \* bgBufferRef.current: duration, or NoBuffer
  bgFile,          \* the backgroundAudioFile prop
  bgDecoding,      \* files whose loadBg() is waiting on the decoder
  nodes,           \* the AudioBufferSourceNodes that exist in the graph
  voiceSourceRef,  \* voiceSourceRef.current: a node id, or NoRef
  bgSourceRef,     \* bgSourceRef.current: a node id, or NoRef
  vTime,           \* videoRef.current.currentTime
  vPaused,         \* videoRef.current.paused
  onended,         \* videoRef.current.onended: "null", "export", "plain"
  isPlaying, isReady, isRendering, renderType,
  volume,          \* volume, bgVolume, originalVolume
  muted,           \* isVoiceMuted, isBgMuted, isOriginalMuted
  gainValue,       \* the gain.value of the three GainNodes
  pendingPlays,    \* play() calls suspended at await resume(), oldest first
  recorder,        \* the MediaRecorder of the export: "none", "recording", "stopped"
  captureTaps,     \* capture destinations connected to the three gain nodes
  downloads,       \* file names handed to the browser for download
  lastCall,        \* history: the transport call made most recently:
                   \* "none", "play", "seek" (play() from handleSeek), "pause"
  listening,       \* the gain nodes connected to audioContext.destination
  job,             \* the performExport call whose recorder exists: its type
                   \* argument and (history) whether it cut a preview short
  audioData,       \* the audioData prop: the voice bytes
  voiceDecoding,   \* the decodeTTS() call for audioData has yet to finish
  mounted,         \* the DubbedPlayer component is mounted
  app,             \* the state of App: state, videoFile, result, errorMsg and
                   \* the handleDubbing calls that have yet to finish
  staleDecodes,    \* voice bytes of the decodeTTS() calls still waiting whose
                   \* effect has been cleaned up (active = false)
  binding,         \* originalSourceRef and the media-element sources made
  codec            \* an input of the audio utilities and their results

vars == <<ctxState, voiceBuffer, bgBuffer, bgFile, bgDecoding, nodes,
          voiceSourceRef, bgSourceRef, vTime, vPaused, onended, isPlaying,
          isReady, isRendering, renderType, volume, muted, gainValue,
          pendingPlays, recorder, captureTaps, downloads, lastCall,
          listening, job, audioData, voiceDecoding, staleDecodes, binding, codec, mounted, app>>

\* The variables the transport functions read and write, as one record.
TS == [nodes |-> nodes, voiceSourceRef |-> voiceSourceRef,
       bgSourceRef |-> bgSourceRef, vTime |-> vTime, vPaused |-> vPaused,
       isPlaying |-> isPlaying]

SetTS(s) ==
  /\ nodes' = s.nodes
  /\ voiceSourceRef' = s.voiceSourceRef
  /\ bgSourceRef' = s.bgSourceRef
  /\ vTime' = s.vTime
  /\ vPaused' = s.vPaused
  /\ isPlaying' = s.isPlaying

Running(ns, ch) == {n \in NodeIds : ns[n].chan = ch /\ ns[n].st = "running"}

FreeIds(ns) == {n \in NodeIds : ns[n] = NoNode}

FirstFree(ns) == CHOOSE n \in FreeIds(ns) : \A m \in FreeIds(ns) : n <= m

\* ---------------------------------------------------------------- Init
\* The player after its first render.
InitPlayer ==
  /\ ctxState \in {"suspended", "running"}
  /\ voiceBuffer = NoBuffer
  /\ bgBuffer = NoBuffer
  /\ bgFile = NoFile
  /\ bgDecoding = {}
  /\ nodes = [n \in NodeIds |-> NoNode]
  /\ voiceSourceRef = NoRef
  /\ bgSourceRef = NoRef
  /\ vTime = 0
  /\ vPaused = TRUE
  /\ onended = "null"
  /\ isPlaying = FALSE
  /\ isReady = FALSE
  /\ isRendering = FALSE
  /\ renderType = "null"
  /\ volume = InitVolume
  /\ muted = [ch \in Channels |-> FALSE]
  /\ gainValue = InitVolume
  /\ pendingPlays = <<>>
  /\ recorder = "none"
  /\ captureTaps = 0
  /\ downloads = <<>>
  /\ lastCall = "none"
  /\ listening = Channels
  /\ job = NoJob
  /\ audioData = InitAudio
  /\ voiceDecoding = TRUE
  /\ staleDecodes = {}
  /\ mounted = TRUE
  /\ binding = NoBinding

Init == InitPlayer /\ codec = NoCodec /\ app = InitApp

\* The variables of the player, which the audio utilities never touch.
playerVars == <<ctxState, voiceBuffer, bgBuffer, bgFile, bgDecoding, nodes,
                voiceSourceRef, bgSourceRef, vTime, vPaused, onended,
                isPlaying, isReady, isRendering, renderType, volume, muted,
                gainValue, pendingPlays, recorder, captureTaps, downloads,
                lastCall, listening, job, audioData, voiceDecoding, staleDecodes, binding,
                mounted>>

\* The utilities are handed any byte buffer of up to MaxLen bytes and any of
\* the sample rates.
InitCodec ==
  /\ InitPlayer
  /\ app = InitApp
  /\ codec \in {[NoCodec EXCEPT !.data = d, !.rate = r] :
                  d \in Buffers(MaxLen), r \in SampleRates}

\* A call createWavBlob(data, rate); its bytes are kept in codec.wav.
callCreateWavBlob ==
  /\ "wav" \notin codec.ran
  /\ codec' = [codec EXCEPT !.wav = createWavBlob(codec.data, codec.rate),
                             !.ran = @ \cup {"wav"}]
  /\ UNCHANGED <<playerVars, app>>

\* A call decodeAudioData(data, ctx, rate) that has settled; its outcome is
\* kept in codec.decoded.
callDecodeAudioData ==
  /\ "decoded" \notin codec.ran
  /\ codec' = [codec EXCEPT !.decoded = decodeAudioData(codec.data),
                             !.ran = @ \cup {"decoded"}]
  /\ UNCHANGED <<playerVars, app>>

\* -------------------------------------------------------------------- App
\* handleDubbing calls waiting on the service step `step`.
Waiting(step) == {r \in app.requests : r.step = step}

\* VideoUploader's onFileSelected; the uploader is shown while no video is
\* selected.
handleFileSelected(f) ==
  /\ app.videoFile = NoVideo
  /\ app' = [app EXCEPT !.videoFile = f, !.result = NoResult,
                         !.state = "IDLE", !.errorMsg = "null"]
  /\ UNCHANGED <<playerVars, codec>>

\* The Change Video button, shown while a video is selected.
handleReset ==
  /\ app.videoFile # NoVideo
  /\ app' = [app EXCEPT !.state = "IDLE", !.videoFile = NoVideo,
                         !.result = NoResult, !.errorMsg = "null"]
  /\ UNCHANGED <<playerVars, codec>>

\* The Generate Dub button, up to the first await: the button is disabled
\* while ANALYZING or GENERATING_AUDIO.
handleDubbing ==
  /\ app.videoFile # NoVideo
  /\ app.state \notin {"ANALYZING", "GENERATING_AUDIO"}
  /\ app.started < MaxRequests
  /\ app' = [app EXCEPT
               !.state = "ANALYZING", !.errorMsg = "null",
               !.started = @ + 1,
               !.requests = @ \cup {[id |-> app.started + 1,
                                     video |-> app.videoFile,
                                     step |-> "analyze"]}]
  /\ UNCHANGED <<playerVars, codec>>

\* handleDubbing after analyzeAndTranslate has returned its value.
analyzeReturns(r) ==
  /\ r \in Waiting("analyze")
  /\ app' = [app EXCEPT
               !.state = "GENERATING_AUDIO",
               !.requests = (@ \ {r}) \cup {[r EXCEPT !.step = "speech"]}]
  /\ UNCHANGED <<playerVars, codec>>

\* handleDubbing after generateSpeech has returned its value.
speechReturns(r) ==
  /\ r \in Waiting("speech")
  /\ app' = [app EXCEPT
               !.result = [video |-> r.video, request |-> r.id],
               !.state = "READY",
               !.requests = @ \ {r}]
  /\ UNCHANGED <<playerVars, codec>>

\* The context handleError is called with in each service method.
Context(step) == IF step = "analyze" THEN "analyze video" ELSE "generate speech"

\* A service method caught the error e and called handleError: what
\* handleDubbing's catch block receives.  Were handleError to return, the
\* method would return undefined and handleDubbing would throw a TypeError
\* on reading a property of it.
Caught(step, e) ==
  LET h == handleError(e, Context(step))
  IN IF h.threw THEN h.message
     ELSE "Cannot read properties of undefined"

\* handleDubbing's catch block after the service step of r failed with e:
\* setErrorMsg(e.message || "An unknown error occurred"), setState(ERROR).
serviceFails(r, e) ==
  /\ r \in app.requests
  /\ app' = [app EXCEPT
               !.errorMsg = IF Caught(r.step, e) = ""
                            THEN "An unknown error occurred"
                            ELSE Caught(r.step, e),
               !.state = "ERROR",
               !.requests = @ \ {r}]
  /\ UNCHANGED <<playerVars, codec>>

\* analyzeAndTranslate caught a SyntaxError from JSON.parse.
parseFails(r) ==
  /\ r \in Waiting("analyze")
  /\ app' = [app EXCEPT
               !.errorMsg = "Failed to parse AI response.",
               !.state = "ERROR",
               !.requests = @ \ {r}]
  /\ UNCHANGED <<playerVars, codec>>

\* ------------------------------------------------------------- transport
\* Faulty variant of stopSources: the voice source is left running and
\* referenced, only the background source is torn down.
stopSourcesBgOnly(s) ==
  [s EXCEPT !.nodes = [n \in NodeIds |->
                         IF n = s.bgSourceRef THEN NoNode ELSE s.nodes[n]],
            !.bgSourceRef = NoRef]

\* stopSources(): stop, disconnect and forget both source instances.
stopSources(s) ==
  [s EXCEPT !.nodes = [n \in NodeIds |->
                         IF n = s.voiceSourceRef \/ n = s.bgSourceRef
                         THEN NoNode ELSE s.nodes[n]],
            !.voiceSourceRef = NoRef,
            !.bgSourceRef = NoRef]

\* videoRef.current.play(): an element that stopped at its end starts over.
videoPlay(s) ==
  [s EXCEPT !.vPaused = FALSE,
            !.vTime = IF s.vPaused /\ s.vTime = VideoDur THEN 0 ELSE s.vTime]

\* Faulty variant of startVoice: the source is started whatever the time.
startVoiceAlways(s, t) ==
  IF voiceBuffer = NoBuffer THEN s
  ELSE LET id == FirstFree(s.nodes)
       IN [s EXCEPT !.nodes[id] = [chan |-> "voice", st |-> "running",
                                   offset |-> t, loop |-> FALSE,
                                   starts |-> 1],
                    !.voiceSourceRef = id]

\* play(), "Start Voice": a fresh one-shot source, started only when the
\* video time is inside the voice buffer.
startVoice(s, t) ==
  IF voiceBuffer = NoBuffer THEN s
  ELSE LET id == FirstFree(s.nodes)
       IN [s EXCEPT !.nodes[id] =
                       IF t < voiceBuffer
                       THEN [chan |-> "voice", st |-> "running",
                             offset |-> t, loop |-> FALSE,
                                   starts |-> 1]
                       ELSE [chan |-> "voice", st |-> "created",
                             offset |-> 0, loop |-> FALSE,
                             starts |-> 0],
                    !.voiceSourceRef = id]

\* Faulty variant of startBackground: the offset is not reduced modulo the
\* buffer's duration.
startBackgroundNoWrap(s, t) ==
  IF bgBuffer = NoBuffer THEN s
  ELSE LET id == FirstFree(s.nodes)
       IN [s EXCEPT !.nodes[id] = [chan |-> "bg", st |-> "running",
                                   offset |-> t, loop |-> TRUE,
                                   starts |-> 1],
                    !.bgSourceRef = id]

\* play(), "Start Background": a fresh looping source at t % duration.
startBackground(s, t) ==
  IF bgBuffer = NoBuffer THEN s
  ELSE LET id == FirstFree(s.nodes)
       IN [s EXCEPT !.nodes[id] = [chan |-> "bg", st |-> "running",
                                   offset |-> t % bgBuffer, loop |-> TRUE,
                                   starts |-> 1],
                    !.bgSourceRef = id]

\* Faulty variant of playBody: no stopSources() before the new sources.
playBodyNoTeardown(s) ==
  LET t == s.vTime
      s2 == startVoice(s, t)
      s3 == startBackground(s2, t)
  IN [videoPlay(s3) EXCEPT !.isPlaying = TRUE]

\* Faulty variant of playBody: a Voice instance still held by the ref is
\* started again instead of being replaced.
playBodyReuse(s) ==
  IF s.voiceSourceRef # NoRef
  THEN [videoPlay([s EXCEPT !.nodes[s.voiceSourceRef].st = "running",
                            !.nodes[s.voiceSourceRef].offset = s.vTime,
                            !.nodes[s.voiceSourceRef].starts = @ + 1])
          EXCEPT !.isPlaying = TRUE]
  ELSE LET t == s.vTime
           s2 == startVoice(s, t)
           s3 == startBackground(s2, t)
       IN [videoPlay(s3) EXCEPT !.isPlaying = TRUE]

\* The part of play() after the resume() check.
playBody(s) ==
  LET s1 == stopSources(s)
      t == s1.vTime
      s2 == startVoice(s1, t)
      s3 == startBackground(s2, t)
  IN [videoPlay(s3) EXCEPT !.isPlaying = TRUE]

\* Room in the model for the instances playBody(s) creates.
CanCreate(s) == Cardinality(FreeIds(s.nodes)) >= 2

\* Faulty variant of pause: the sources are not stopped.
pauseKeepSources(s) == [s EXCEPT !.vPaused = TRUE, !.isPlaying = FALSE]

\* pause()
pause(s) ==
  [stopSources([s EXCEPT !.vPaused = TRUE]) EXCEPT !.isPlaying = FALSE]

\* Faulty variant of play: the body runs without waiting for resume().
playNoAwait(s, caller) ==
  /\ lastCall' = IF caller = "seek" THEN "seek" ELSE "play"
  /\ CanCreate(s)
  /\ SetTS(playBody(s))
  /\ onended' = IF caller = "export" THEN "export" ELSE onended
  /\ UNCHANGED <<pendingPlays, ctxState>>

\* A call of play() made by `caller` on transport state s: it either runs
\* through, or waits on resume() when the audio device is suspended.  A
\* waiting call is remembered by its caller: "click", "seek" or "export".
play(s, caller) ==
  /\ lastCall' = IF caller = "seek" THEN "seek" ELSE "play"
  /\ IF ctxState = "suspended"
     THEN /\ Len(pendingPlays) < MaxPending
          /\ pendingPlays' = Append(pendingPlays, caller)
          /\ SetTS(s)
          /\ UNCHANGED onended
     ELSE /\ CanCreate(s)
          /\ SetTS(playBody(s))
          /\ onended' = IF caller = "export" THEN "export" ELSE onended
          /\ UNCHANGED pendingPlays
  /\ UNCHANGED ctxState

\* resume() has resolved for the oldest waiting play(): the device runs and
\* the rest of play() executes.  For the play() awaited by performExport,
\* the export's onended handler is installed right after.
PlayResume ==
  /\ pendingPlays # <<>>
  /\ CanCreate(TS)
  /\ ctxState' = "running"
  /\ SetTS(playBody(TS))
  /\ pendingPlays' = Tail(pendingPlays)
  /\ onended' = IF Head(pendingPlays) = "export" THEN "export" ELSE onended
  /\ UNCHANGED <<voiceBuffer, bgBuffer, bgFile, bgDecoding, isReady,
                 isRendering, renderType, volume, muted, gainValue,
                 recorder, captureTaps, downloads, listening, audioData, voiceDecoding, staleDecodes,
                 binding, codec, mounted, app, job, lastCall>>

\* The play overlay and the play/pause button while not playing: play().
ClickPlay ==
  /\ ~isPlaying /\ isReady /\ ~isRendering
  /\ play(TS, "click")
  /\ UNCHANGED <<voiceBuffer, bgBuffer, bgFile, bgDecoding, isReady,
                 isRendering, renderType, volume, muted, gainValue,
                 recorder, captureTaps, downloads, listening, audioData, voiceDecoding, staleDecodes,
                 binding, codec, mounted, app, job>>

\* The play/pause button while playing: pause().
ClickPause ==
  /\ isPlaying /\ isReady /\ ~isRendering
  /\ SetTS(pause(TS))
  /\ lastCall' = "pause"
  /\ UNCHANGED <<ctxState, voiceBuffer, bgBuffer, bgFile, bgDecoding, onended,
                 isReady, isRendering, renderType, volume, muted, gainValue,
                 pendingPlays, recorder, captureTaps, downloads, listening, audioData, voiceDecoding, staleDecodes,
                 binding, codec, mounted, app, job>>

\* Faulty variant of handleSeek: play() is called whether or not the
\* transport is playing.
handleSeekAlwaysPlays(t) ==
  /\ ~isRendering
  /\ play([TS EXCEPT !.vTime = t], "seek")
  /\ UNCHANGED <<voiceBuffer, bgBuffer, bgFile, bgDecoding, isReady,
                 isRendering, renderType, volume, muted, gainValue,
                 recorder, captureTaps, downloads, listening, audioData,
                 voiceDecoding, staleDecodes, binding, codec, mounted, app, job>>

\* Faulty variant of handleSeek: play() is called before the video is moved.
handleSeekPlayFirst(t) ==
  /\ ~isRendering
  /\ IF isPlaying
     THEN /\ lastCall' = "seek"
          /\ IF ctxState = "suspended"
             THEN /\ Len(pendingPlays) < MaxPending
                  /\ pendingPlays' = Append(pendingPlays, "seek")
                  /\ SetTS([TS EXCEPT !.vTime = t])
             ELSE /\ CanCreate(TS)
                  /\ SetTS([playBody(TS) EXCEPT !.vTime = t])
                  /\ UNCHANGED pendingPlays
          /\ UNCHANGED <<ctxState, onended>>
     ELSE /\ SetTS([TS EXCEPT !.vTime = t])
          /\ UNCHANGED <<ctxState, pendingPlays, onended, lastCall>>
  /\ UNCHANGED <<voiceBuffer, bgBuffer, bgFile, bgDecoding, isReady,
                 isRendering, renderType, volume, muted, gainValue,
                 recorder, captureTaps, downloads, listening, audioData, voiceDecoding, staleDecodes,
                 binding, codec, mounted, app, job>>

\* handleSeek: move the video; when playing, restart the sources with play().
handleSeek(t) ==
  /\ ~isRendering
  /\ IF isPlaying
     THEN play([TS EXCEPT !.vTime = t], "seek")
     ELSE /\ SetTS([TS EXCEPT !.vTime = t])
          /\ UNCHANGED <<ctxState, pendingPlays, onended, lastCall>>
  /\ UNCHANGED <<voiceBuffer, bgBuffer, bgFile, bgDecoding, isReady,
                 isRendering, renderType, volume, muted, gainValue,
                 recorder, captureTaps, downloads, listening, audioData, voiceDecoding, staleDecodes,
                 binding, codec, mounted, app, job>>

\* ------------------------------------------------------ the video element
\* The video clock advances while the element plays.
Tick ==
  /\ ~vPaused /\ vTime < VideoDur
  /\ vTime' = vTime + 1
  /\ UNCHANGED <<ctxState, voiceBuffer, bgBuffer, bgFile, bgDecoding, nodes,
                 voiceSourceRef, bgSourceRef, vPaused, onended, isPlaying,
                 isReady, isRendering, renderType, volume, muted, gainValue,
                 pendingPlays, recorder, captureTaps, downloads, listening, audioData, voiceDecoding, staleDecodes,
                 binding, codec, mounted, app, job, lastCall>>

\* The JSX onEnded handler of the video element.
onEnded(s) ==
  IF ~isRendering THEN stopSources([s EXCEPT !.isPlaying = FALSE]) ELSE s

\* The handler stored in videoRef.current.onended, if any.  The export's
\* handler stops the recorder first; stop() throws on a recorder that is
\* not recording and the rest of the handler is then skipped.
onendedHandler(s) ==
  CASE onended = "export" /\ recorder # "recording" -> s
    [] onended \in {"export", "plain"} ->
         stopSources([s EXCEPT !.isPlaying = FALSE])
    [] OTHER -> s

\* Faulty variant of NaturalEnd: the export's end handler stays installed.
NaturalEndKeepsHandler ==
  /\ ~vPaused /\ vTime = VideoDur
  /\ SetTS(onendedHandler(onEnded(
              [TS EXCEPT !.vPaused = TRUE, !.isPlaying = FALSE])))
  /\ recorder' = IF onended = "export" /\ recorder = "recording"
                 THEN "stopped" ELSE recorder
  /\ onended' = onended
  /\ UNCHANGED <<ctxState, voiceBuffer, bgBuffer, bgFile, bgDecoding,
                 isReady, isRendering, renderType, volume, muted, gainValue,
                 pendingPlays, captureTaps, downloads, listening, audioData, voiceDecoding, staleDecodes,
                 binding, codec, mounted, app, job, lastCall>>

\* The video plays to its end: the element pauses itself and fires its
\* pause event (onPause) and its ended event (onEnded, then onended).
NaturalEnd ==
  /\ ~vPaused /\ vTime = VideoDur
  /\ SetTS(onendedHandler(onEnded(
              [TS EXCEPT !.vPaused = TRUE, !.isPlaying = FALSE])))
  /\ recorder' = IF onended = "export" /\ recorder = "recording"
                 THEN "stopped" ELSE recorder
  /\ onended' = IF onended = "export" /\ recorder = "recording"
                THEN "plain" ELSE onended
  /\ UNCHANGED <<ctxState, voiceBuffer, bgBuffer, bgFile, bgDecoding,
                 isReady, isRendering, renderType, volume, muted, gainValue,
                 pendingPlays, captureTaps, downloads, listening, audioData, voiceDecoding, staleDecodes,
                 binding, codec, mounted, app, job, lastCall>>

\* The element is started from outside the component (media keys, the
\* browser's own controls): only the onPlay handler runs.
ElementPlay ==
  /\ vPaused
  /\ SetTS([videoPlay(TS) EXCEPT !.isPlaying = TRUE])
  /\ UNCHANGED <<ctxState, voiceBuffer, bgBuffer, bgFile, bgDecoding, onended,
                 isReady, isRendering, renderType, volume, muted, gainValue,
                 pendingPlays, recorder, captureTaps, downloads, listening, audioData, voiceDecoding, staleDecodes,
                 binding, codec, mounted, app, job, lastCall>>

\* The element is paused from outside the component: only onPause runs.
ElementPause ==
  /\ ~vPaused
  /\ SetTS([TS EXCEPT !.vPaused = TRUE, !.isPlaying = FALSE])
  /\ UNCHANGED <<ctxState, voiceBuffer, bgBuffer, bgFile, bgDecoding, onended,
                 isReady, isRendering, renderType, volume, muted, gainValue,
                 pendingPlays, recorder, captureTaps, downloads, listening, audioData, voiceDecoding, staleDecodes,
                 binding, codec, mounted, app, job, lastCall>>

\* A one-shot voice source reaches the end of its buffer on the audio clock.
VoiceSourceEnded ==
  /\ \E n \in Running(nodes, "voice") :
        nodes' = [nodes EXCEPT ![n].st = "ended"]
  /\ UNCHANGED <<ctxState, voiceBuffer, bgBuffer, bgFile, bgDecoding,
                 voiceSourceRef, bgSourceRef, vTime, vPaused, onended,
                 isPlaying, isReady, isRendering, renderType, volume, muted,
                 gainValue, pendingPlays, recorder, captureTaps, downloads, listening, audioData, voiceDecoding, staleDecodes,
                 binding, codec, mounted, app, job,
                 lastCall>>

\* ----------------------------------------------------------------- decode
\* Faulty variant of decodeTTS: a failed decode clears the voice buffer and
\* still marks the player ready.
decodeTTSNoCatch ==
  /\ voiceDecoding
  /\ voiceDecoding' = FALSE
  /\ LET r == decodeAudioData(audioData)
     IN voiceBuffer' = IF r.ok THEN Len(r.channelData) ELSE NoBuffer
  /\ isReady' = TRUE
  /\ UNCHANGED <<ctxState, bgBuffer, bgFile, bgDecoding, nodes,
                 voiceSourceRef, bgSourceRef, vTime, vPaused, onended,
                 isPlaying, isRendering, renderType, volume, muted, gainValue,
                 pendingPlays, recorder, captureTaps, downloads, listening,
                 audioData, staleDecodes, binding, codec, mounted, app, job,
                 lastCall>>

\* decodeTTS after its await: the decoded voice buffer is stored and the
\* player becomes ready, or decodeAudioData threw and the catch block only
\* logs.  The buffer's duration is its number of frames.
decodeTTS ==
  /\ voiceDecoding
  /\ voiceDecoding' = FALSE
  /\ LET r == decodeAudioData(audioData)
     IN IF r.ok
        THEN /\ voiceBuffer' = Len(r.channelData)
             /\ isReady' = TRUE
        ELSE UNCHANGED <<voiceBuffer, isReady>>
  /\ UNCHANGED <<ctxState, bgBuffer, bgFile, bgDecoding, nodes,
                 voiceSourceRef, bgSourceRef, vTime, vPaused, onended,
                 isPlaying, isRendering, renderType, volume, muted, gainValue,
                 pendingPlays, recorder, captureTaps, downloads, listening,
                 audioData, staleDecodes, binding, codec, mounted, app, job,
                 lastCall>>

\* Faulty variant of decodeTTSStale: the active flag is not tested.
decodeTTSStaleInstalls ==
  \E d \in staleDecodes :
    /\ staleDecodes' = staleDecodes \ {d}
    /\ LET r == decodeAudioData(d)
       IN IF r.ok
          THEN /\ voiceBuffer' = Len(r.channelData)
               /\ isReady' = TRUE
          ELSE UNCHANGED <<voiceBuffer, isReady>>
    /\ UNCHANGED <<ctxState, bgBuffer, bgFile, bgDecoding, nodes,
                   voiceSourceRef, bgSourceRef, vTime, vPaused, onended,
                   isPlaying, isRendering, renderType, volume, muted,
                   gainValue, pendingPlays, recorder, captureTaps, downloads,
                   listening, audioData, voiceDecoding, binding, codec, mounted, app, job,
                   lastCall>>

\* decodeTTS after its await, in a call whose effect has been cleaned up:
\* active is false, so the decoded buffer is dropped; a failure is logged.
decodeTTSStale ==
  \E d \in staleDecodes :
    /\ staleDecodes' = staleDecodes \ {d}
    /\ UNCHANGED <<ctxState, voiceBuffer, bgBuffer, bgFile, bgDecoding, nodes,
                   voiceSourceRef, bgSourceRef, vTime, vPaused, onended,
                   isPlaying, isReady, isRendering, renderType, volume, muted,
                   gainValue, pendingPlays, recorder, captureTaps, downloads,
                   listening, audioData, voiceDecoding, binding, codec, mounted, app, job,
                   lastCall>>

\* The audioData prop changes: the effect's cleanup deactivates a decodeTTS
\* call still waiting, and a new call starts.
SetAudioData(d) ==
  /\ d # audioData
  /\ audioData' = d
  /\ voiceDecoding' = TRUE
  /\ staleDecodes' = IF voiceDecoding THEN staleDecodes \cup {audioData}
                     ELSE staleDecodes
  /\ UNCHANGED <<ctxState, voiceBuffer, bgBuffer, bgFile, bgDecoding, nodes,
                 voiceSourceRef, bgSourceRef, vTime, vPaused, onended,
                 isPlaying, isReady, isRendering, renderType, volume, muted,
                 gainValue, pendingPlays, recorder, captureTaps, downloads,
                 listening, binding, codec, mounted, app, job, lastCall>>

\* A background file is chosen: the prop changes and loadBg() starts.
SelectBgFile(f) ==
  /\ f \notin bgDecoding
  /\ bgFile' = f
  /\ bgDecoding' = bgDecoding \cup {f}
  /\ UNCHANGED <<ctxState, voiceBuffer, bgBuffer, nodes, voiceSourceRef,
                 bgSourceRef, vTime, vPaused, onended, isPlaying, isReady,
                 isRendering, renderType, volume, muted, gainValue,
                 pendingPlays, recorder, captureTaps, downloads, listening, audioData, voiceDecoding, staleDecodes,
                 binding, codec, mounted, app, job, lastCall>>

\* loadBg() after its awaits: the decoded buffer is stored, or the decoder
\* rejected the file and the catch block only logs.
loadBg(f) ==
  /\ f \in bgDecoding
  /\ bgDecoding' = bgDecoding \ {f}
  /\ bgBuffer' = IF Decodable(f) THEN BgDur(f) ELSE bgBuffer
  /\ UNCHANGED <<ctxState, voiceBuffer, bgFile, nodes, voiceSourceRef,
                 bgSourceRef, vTime, vPaused, onended, isPlaying, isReady,
                 isRendering, renderType, volume, muted, gainValue,
                 pendingPlays, recorder, captureTaps, downloads, listening, audioData, voiceDecoding, staleDecodes,
                 binding, codec, mounted, app, job, lastCall>>

\* -------------------------------------------------------- original audio
\* Faulty variant of bindOriginalEffect: a re-run binds the element again.
bindOriginalEffectRebinds ==
  /\ binding.attempts < MaxBinds
  /\ binding' = [binding EXCEPT !.attempts = @ + 1, !.ref = TRUE,
                                !.sources = @ + 1]
  /\ UNCHANGED <<ctxState, voiceBuffer, bgBuffer, bgFile, bgDecoding, nodes,
                 voiceSourceRef, bgSourceRef, vTime, vPaused, onended,
                 isPlaying, isReady, isRendering, renderType, volume, muted,
                 gainValue, pendingPlays, recorder, captureTaps, downloads,
                 listening, audioData, voiceDecoding, staleDecodes, codec, mounted, app, job, lastCall>>

\* The original-audio binding effect runs.  It returns at once when
\* originalSourceRef is set.  Otherwise createMediaElementSource either
\* gives a source, which is connected and stored in the ref, or throws
\* (always so when the element has a source already) and the catch block
\* only warns.
bindOriginalEffect ==
  /\ binding.attempts < MaxBinds
  /\ IF binding.ref
     THEN binding' = [binding EXCEPT !.attempts = @ + 1]
     ELSE \E created \in IF binding.sources = 0 THEN BOOLEAN ELSE {FALSE} :
            binding' = IF created
                       THEN [binding EXCEPT !.attempts = @ + 1, !.ref = TRUE,
                                            !.sources = @ + 1]
                       ELSE [binding EXCEPT !.attempts = @ + 1,
                                            !.failures = @ + 1]
  /\ UNCHANGED <<ctxState, voiceBuffer, bgBuffer, bgFile, bgDecoding, nodes,
                 voiceSourceRef, bgSourceRef, vTime, vPaused, onended,
                 isPlaying, isReady, isRendering, renderType, volume, muted,
                 gainValue, pendingPlays, recorder, captureTaps, downloads,
                 listening, audioData, voiceDecoding, staleDecodes, codec, mounted, app, job, lastCall>>

\* --------------------------------------------------------------- teardown
\* App stops rendering <DubbedPlayer>: React runs the cleanups of its
\* effects (the init effect's is empty, the decode effect's clears `active`)
\* and removes the video element from the document, which pauses it.  The
\* audio context, its nodes and the recorder are left as they are.
unmount ==
  /\ mounted
  /\ mounted' = FALSE
  /\ vPaused' = TRUE
  /\ voiceDecoding' = FALSE
  /\ staleDecodes' = IF voiceDecoding THEN staleDecodes \cup {audioData}
                     ELSE staleDecodes
  /\ UNCHANGED <<ctxState, voiceBuffer, bgBuffer, bgFile, bgDecoding, nodes,
                 voiceSourceRef, bgSourceRef, vTime, onended, isPlaying,
                 isReady, isRendering, renderType, volume, muted, gainValue,
                 pendingPlays, recorder, captureTaps, downloads, listening,
                 audioData, binding, codec, job, lastCall, app>>

\* A play() that was waiting on resume() goes on after the unmount: it
\* runs stopSources() and then throws on videoRef.current, which is null.
PlayResumeUnmounted ==
  /\ ~mounted
  /\ pendingPlays # <<>>
  /\ ctxState' = "running"
  /\ SetTS(stopSources(TS))
  /\ pendingPlays' = Tail(pendingPlays)
  /\ UNCHANGED <<voiceBuffer, bgBuffer, bgFile, bgDecoding, onended, isReady,
                 isRendering, renderType, volume, muted, gainValue,
                 recorder, captureTaps, downloads, listening, audioData,
                 voiceDecoding, staleDecodes, binding, codec, job, lastCall,
                 mounted, app>>

\* ------------------------------------------------------------------ mixer
\* Faulty variant of volumeEffect: the muted flag is ignored.
volumeEffectIgnoreMute(vol, m) == vol

\* The three volume/mute effects: gain.value = muted ? 0 : volume.
volumeEffect(vol, m) == IF m THEN 0 ELSE vol

\* Faulty variant of setVolume: one slider drives the gain of every channel.
setVolumeAllChannels(ch, v) ==
  /\ ~muted[ch]
  /\ ch = "bg" => bgFile # NoFile
  /\ volume' = [volume EXCEPT ![ch] = v]
  /\ gainValue' = [c \in Channels |-> volumeEffect(v, muted[c])]
  /\ UNCHANGED <<ctxState, voiceBuffer, bgBuffer, bgFile, bgDecoding, nodes,
                 voiceSourceRef, bgSourceRef, vTime, vPaused, onended,
                 isPlaying, isReady, isRendering, renderType, muted,
                 pendingPlays, recorder, captureTaps, downloads, listening,
                 audioData, voiceDecoding, staleDecodes, binding, codec, mounted, app, job, lastCall>>

\* A range input's onChange: setVolume / setBgVolume / setOriginalVolume.
setVolume(ch, v) ==
  /\ ~muted[ch]
  /\ ch = "bg" => bgFile # NoFile
  /\ volume' = [volume EXCEPT ![ch] = v]
  /\ gainValue' = [gainValue EXCEPT ![ch] = volumeEffect(v, muted[ch])]
  /\ UNCHANGED <<ctxState, voiceBuffer, bgBuffer, bgFile, bgDecoding, nodes,
                 voiceSourceRef, bgSourceRef, vTime, vPaused, onended,
                 isPlaying, isReady, isRendering, renderType, muted,
                 pendingPlays, recorder, captureTaps, downloads, listening, audioData, voiceDecoding, staleDecodes,
                 binding, codec, mounted, app, job, lastCall>>

\* Faulty variant of toggleMute: muting overwrites the stored volume with 0.
toggleMuteDestructive(ch) ==
  /\ ch = "bg" => bgFile # NoFile
  /\ muted' = [muted EXCEPT ![ch] = ~muted[ch]]
  /\ volume' = [volume EXCEPT ![ch] = IF muted[ch] THEN volume[ch] ELSE 0]
  /\ gainValue' = [gainValue EXCEPT
                     ![ch] = volumeEffect(volume'[ch], ~muted[ch])]
  /\ UNCHANGED <<ctxState, voiceBuffer, bgBuffer, bgFile, bgDecoding, nodes,
                 voiceSourceRef, bgSourceRef, vTime, vPaused, onended,
                 isPlaying, isReady, isRendering, renderType,
                 pendingPlays, recorder, captureTaps, downloads, listening, audioData, voiceDecoding, staleDecodes,
                 binding, codec, mounted, app, job, lastCall>>

\* A MUTE / UNMUTE button: the muted flag flips, the volume state is kept.
toggleMute(ch) ==
  /\ ch = "bg" => bgFile # NoFile
  /\ muted' = [muted EXCEPT ![ch] = ~muted[ch]]
  /\ gainValue' = [gainValue EXCEPT
                     ![ch] = volumeEffect(volume[ch], ~muted[ch])]
  /\ UNCHANGED <<ctxState, voiceBuffer, bgBuffer, bgFile, bgDecoding, nodes,
                 voiceSourceRef, bgSourceRef, vTime, vPaused, onended,
                 isPlaying, isReady, isRendering, renderType, volume,
                 pendingPlays, recorder, captureTaps, downloads, listening, audioData, voiceDecoding, staleDecodes,
                 binding, codec, mounted, app, job, lastCall>>

\* ----------------------------------------------------------------- export
\* Every export request so far either still has its capture destination
\* attached or has ended in a download.
ExportsMade == captureTaps + Len(downloads)

\* Faulty variant of performExport: the export buttons stay enabled while
\* an export is in flight.
performExportUnguarded(type) ==
  /\ isReady
  /\ voiceBuffer # NoBuffer
  /\ ExportsMade < MaxExports
  /\ isRendering' = TRUE
  /\ renderType' = type
  /\ captureTaps' = captureTaps + 1
  /\ recorder' = "recording"
  /\ job' = [type |-> type,
             midPreview |-> vTime > 0 /\ Running(nodes, "voice") # {}]
  /\ play([pause(TS) EXCEPT !.vTime = 0], "export")
  /\ UNCHANGED <<voiceBuffer, bgBuffer, bgFile, bgDecoding, isReady, volume,
                 muted, gainValue, downloads, listening, audioData, voiceDecoding, staleDecodes,
                 binding, codec, mounted, app>>

\* performExport(type) when the recorder can be built: pause(), attach a
\* new capture destination, start the recorder, rewind and play().  The
\* export buttons are disabled while isRendering or not isReady.
performExport(type) ==
  /\ ~isRendering /\ isReady
  /\ voiceBuffer # NoBuffer
  /\ ExportsMade < MaxExports
  /\ isRendering' = TRUE
  /\ renderType' = type
  /\ captureTaps' = captureTaps + 1
  /\ recorder' = "recording"
  /\ job' = [type |-> type,
             midPreview |-> vTime > 0 /\ Running(nodes, "voice") # {}]
  /\ play([pause(TS) EXCEPT !.vTime = 0], "export")
  /\ UNCHANGED <<voiceBuffer, bgBuffer, bgFile, bgDecoding, isReady, volume,
                 muted, gainValue, downloads, listening, audioData, voiceDecoding, staleDecodes,
                 binding, codec, mounted, app>>

\* performExport('video') when the element has no captureStream: the
\* function returns after the alert.
performExportNoCapture ==
  /\ ~isRendering /\ isReady
  /\ voiceBuffer # NoBuffer
  /\ ExportsMade < MaxExports
  /\ isRendering' = FALSE
  /\ renderType' = "video"
  /\ SetTS(pause(TS))
  /\ captureTaps' = captureTaps + 1
  /\ lastCall' = "pause"
  /\ UNCHANGED <<ctxState, voiceBuffer, bgBuffer, bgFile, bgDecoding, onended,
                 isReady, volume, muted, gainValue, pendingPlays, recorder,
                 downloads, listening, audioData, voiceDecoding, staleDecodes,
                 binding, codec, mounted, app, job>>

\* The file name recorder.onstop gives the download of an export of `type`.
downloadName(type) ==
  IF type = "video" THEN "dubbed_video_export.webm"
  ELSE "dubbed_audio_mix.webm"

\* Faulty variant of recorderOnstop: the capture destination stays attached.
recorderOnstopKeepTap ==
  /\ recorder = "stopped"
  /\ downloads' = Append(downloads, downloadName(job.type))
  /\ isRendering' = FALSE
  /\ renderType' = "null"
  /\ recorder' = "none"
  /\ job' = NoJob
  /\ UNCHANGED <<ctxState, voiceBuffer, bgBuffer, bgFile, bgDecoding, nodes,
                 voiceSourceRef, bgSourceRef, vTime, vPaused, onended,
                 isPlaying, isReady, volume, muted, gainValue, pendingPlays,
                 captureTaps, lastCall, listening, audioData, voiceDecoding, staleDecodes,
                 binding, codec, mounted, app>>

\* Faulty variant of recorderOnstop: disconnect() is called without its
\* argument and removes every output of the three gain nodes.
recorderOnstopDisconnectAll ==
  /\ recorder = "stopped"
  /\ downloads' = Append(downloads, downloadName(job.type))
  /\ captureTaps' = 0
  /\ listening' = {}
  /\ isRendering' = FALSE
  /\ renderType' = "null"
  /\ recorder' = "none"
  /\ job' = NoJob
  /\ UNCHANGED <<ctxState, voiceBuffer, bgBuffer, bgFile, bgDecoding, nodes,
                 voiceSourceRef, bgSourceRef, vTime, vPaused, onended,
                 isPlaying, isReady, volume, muted, gainValue, pendingPlays,
                 audioData, voiceDecoding, staleDecodes, binding, codec, mounted, app,
                 lastCall>>

\* Faulty variant of recorderOnstop: the rendering flag is never cleared.
recorderOnstopStaysRendering ==
  /\ recorder = "stopped"
  /\ downloads' = Append(downloads, downloadName(job.type))
  /\ captureTaps' = captureTaps - 1
  /\ recorder' = "none"
  /\ job' = NoJob
  /\ UNCHANGED <<ctxState, voiceBuffer, bgBuffer, bgFile, bgDecoding, nodes,
                 voiceSourceRef, bgSourceRef, vTime, vPaused, onended,
                 isPlaying, isReady, isRendering, renderType, volume, muted,
                 gainValue, pendingPlays, lastCall, listening, audioData, voiceDecoding, staleDecodes,
                 binding, codec, mounted, app>>

\* recorder.onstop: download the blob under the name chosen by the type
\* argument of the performExport call that built the recorder, then
\* disconnect(dest) on the three gain nodes.
recorderOnstop ==
  /\ recorder = "stopped"
  /\ downloads' = Append(downloads, downloadName(job.type))
  /\ captureTaps' = captureTaps - 1
  /\ isRendering' = FALSE
  /\ renderType' = "null"
  /\ recorder' = "none"
  /\ job' = NoJob
  /\ UNCHANGED <<ctxState, voiceBuffer, bgBuffer, bgFile, bgDecoding, nodes,
                 voiceSourceRef, bgSourceRef, vTime, vPaused, onended,
                 isPlaying, isReady, volume, muted, gainValue, pendingPlays,
                 lastCall, listening, audioData, voiceDecoding, staleDecodes,
                 binding, codec, mounted, app>>

\* ------------------------------------------------------------------- Next
\* Play, pause, seek and the video element's own events.
NextTransport ==
  \/ ClickPlay
  \/ ClickPause
  \/ \E t \in 0..VideoDur : handleSeek(t)
  \/ PlayResume
  \/ Tick
  \/ NaturalEnd
  \/ ElementPlay
  \/ ElementPause
  \/ VoiceSourceEnded
  \/ decodeTTS

\* The background file and its decodes.
NextBackground ==
  \/ \E f \in BgFiles : SelectBgFile(f)
  \/ \E f \in BgFiles : loadBg(f)

\* The mixer controls.
NextMixer ==
  \/ \E ch \in Channels : \E v \in SliderValues(ch) : setVolume(ch, v)
  \/ \E ch \in Channels : toggleMute(ch)

\* The export buttons and the recorder's completion callback.
NextExport ==
  \/ \E type \in {"video", "audio"} : performExport(type)
  \/ performExportNoCapture
  \/ recorderOnstop

Next == NextTransport \/ NextBackground \/ NextMixer \/ NextExport

Spec == Init /\ [][Next]_vars

\* The transport with one background file and a single export request.
NextTransportExport ==
  \/ NextTransport
  \/ SelectBgFile("a")
  \/ loadBg("a")
  \/ (ExportsMade = 0 /\ \E type \in {"video", "audio"} : performExport(type))
  \/ (ExportsMade = 0 /\ performExportNoCapture)
  \/ recorderOnstop

SpecTransport == Init /\ [][NextTransportExport]_vars

\* The export pipeline over a player that is played, paused and left to run
\* to its end, with one background file.
NextExportRun ==
  \/ decodeTTS
  \/ ClickPlay
  \/ ClickPause
  \/ PlayResume
  \/ Tick
  \/ NaturalEnd
  \/ ElementPlay
  \/ ElementPause
  \/ SelectBgFile("a")
  \/ loadBg("a")
  \/ NextExport

SpecExport == Init /\ [][NextExportRun]_vars

\* The mixer controls over a player that can be played and paused.
SpecMixer ==
  Init /\ [][NextMixer \/ decodeTTS \/ ClickPlay \/ ClickPause \/ PlayResume
             \/ SelectBgFile("a") \/ loadBg("a")]_vars

\* The export pipeline with nothing outside the component pausing the video:
\* a playing video advances and ends, a pending resume() resolves, and a
\* stopped recorder delivers its completion callback.
NextExportLive ==
  \/ decodeTTS
  \/ ClickPlay
  \/ ClickPause
  \/ PlayResume
  \/ Tick
  \/ NaturalEnd
  \/ ElementPlay
  \/ NextExport

SpecExportLive ==
  /\ Init
  /\ [][NextExportLive]_vars
  /\ WF_vars(PlayResume)
  /\ WF_vars(Tick)
  /\ WF_vars(NaturalEnd)
  /\ WF_vars(recorderOnstop)

\* The background files and their decodes over a player that is played,
\* paused and left to run to its end.
NextBackgroundPlay ==
  \/ decodeTTS
  \/ ClickPlay
  \/ ClickPause
  \/ PlayResume
  \/ Tick
  \/ NaturalEnd
  \/ NextBackground

SpecBackground == Init /\ [][NextBackgroundPlay]_vars

\* The voice bytes and their decodes over a player that is played, paused,
\* exported once and left to run to its end.
NextVoice ==
  \/ decodeTTS
  \/ \E d \in VoiceInputs : SetAudioData(d)
  \/ decodeTTSStale
  \/ ClickPlay
  \/ ClickPause
  \/ PlayResume
  \/ Tick
  \/ NaturalEnd
  \/ ElementPlay
  \/ (ExportsMade = 0 /\ \E type \in {"video", "audio"} : performExport(type))
  \/ recorderOnstop

SpecVoice == Init /\ [][NextVoice]_vars

\* The original-audio binding effect over a player that is played, paused
\* and left to run to its end.
NextBinding ==
  \/ bindOriginalEffect
  \/ decodeTTS
  \/ ClickPlay
  \/ ClickPause
  \/ PlayResume
  \/ Tick
  \/ NaturalEnd

SpecBinding == Init /\ [][NextBinding]_vars

\* The player over its whole life: mounted, app, played and exported, then
\* unmounted by the app, after which only what is already in flight goes on.
NextTeardown ==
  \/ (mounted /\ decodeTTS)
  \/ (mounted /\ SelectBgFile("a"))
  \/ (mounted /\ loadBg("a"))
  \/ (mounted /\ ClickPlay)
  \/ (mounted /\ ClickPause)
  \/ (mounted /\ PlayResume)
  \/ (mounted /\ Tick)
  \/ (mounted /\ NaturalEnd)
  \/ (mounted /\ ExportsMade = 0
       /\ \E type \in {"video", "audio"} : performExport(type))
  \/ (mounted /\ recorderOnstop)
  \/ unmount
  \/ (~mounted /\ VoiceSourceEnded)
  \/ PlayResumeUnmounted

SpecTeardown == Init /\ [][NextTeardown]_vars

\* The app workflow on its own.
NextApp ==
  \/ \E f \in Videos : handleFileSelected(f)
  \/ handleReset
  \/ handleDubbing
  \/ \E r \in app.requests : analyzeReturns(r)
  \/ \E r \in app.requests : speechReturns(r)
  \/ \E r \in app.requests : \E e \in ErrorInputs : serviceFails(r, e)
  \/ \E r \in app.requests : parseFails(r)

SpecApp == Init /\ [][NextApp]_vars

\* The audio utilities on their own, applied to every bounded input.
NextCodec == callCreateWavBlob \/ callDecodeAudioData

SpecCodec == InitCodec /\ [][NextCodec]_vars

\* ================================================================ claims
AllRunning(ns) == Running(ns, "voice") \cup Running(ns, "bg")

\* The instances the two refs point at.
Referenced == {voiceSourceRef, bgSourceRef} \ {NoRef}

\* C1: in every reachable state at most one Voice source and at most one
\* Background source is started and not yet stopped, and no instance exists
\* besides the ones the two refs hold: every play() has torn down the
\* previous session's sources before creating new ones.
C1_AtMostOneSourcePerChannel ==
  /\ Cardinality(Running(nodes, "voice")) <= 1
  /\ Cardinality(Running(nodes, "bg")) <= 1
  /\ \A n \in NodeIds : nodes[n] # NoNode => n \in Referenced

\* C1 witness: a session restarted in mid-video has one source of each kind.
C1_Witness ==
  /\ isPlaying
  /\ \E n \in Running(nodes, "voice") : nodes[n].offset >= 1
  /\ Running(nodes, "bg") # {}
  /\ lastCall = "play"
  /\ ExportsMade = 0

\* C2: play() followed immediately by pause() leaves zero active sources
\* once both calls have completed: when pause() is the latest transport
\* call and no play() is still waiting on the device, nothing is running.
C2_PlayThenPauseLeavesNoSources ==
  (lastCall = "pause" /\ pendingPlays = <<>>) => AllRunning(nodes) = {}

\* A step in which handleSeek runs while Playing.
SeekWhilePlaying == isPlaying /\ \E t \in 0..VideoDur : handleSeek(t)

\* A step in which a play() called by handleSeek finishes after its wait.
SeekPlayResumed ==
  /\ pendingPlays # <<>>
  /\ Head(pendingPlays) = "seek"
  /\ PlayResume

\* C3: a seek while Playing never results in two running Voice sources,
\* neither in the step of the seek nor in the step in which a play() it
\* left waiting on the device finishes, however many seeks overlap.
C3_SeekNeverOverlapsVoice ==
  [][(SeekWhilePlaying \/ SeekPlayResumed)
       => Cardinality(Running(nodes', "voice")) <= 1]_vars

\* C3 witness: of several seeks waiting on the device, one has finished and
\* started the voice while the others still wait.
C3_Witness ==
  /\ isPlaying
  /\ pendingPlays # <<>>
  /\ \A i \in 1..Len(pendingPlays) : pendingPlays[i] = "seek"
  /\ lastCall = "seek"
  /\ Running(nodes, "voice") # {}

\* Every running source is one a play() at video time t starts: the voice
\* at offset t, the background at t modulo its buffer's duration.
SourcesAt(ns, t) ==
  \A n \in AllRunning(ns) :
     IF ns[n].chan = "voice"
     THEN ns[n].offset = t
     ELSE bgBuffer # NoBuffer /\ ns[n].offset = t % bgBuffer

PlayRanAt(t) ==
  \/ ctxState = "running" /\ t = vTime /\ ClickPlay
  \/ t = vTime /\ PlayResume
  \/ ctxState = "running" /\ isPlaying /\ handleSeek(t)
  \/ ctxState = "running" /\ t = 0
       /\ \E type \in {"video", "audio"} : performExport(type)

\* C5: when play() runs with video time t, a Voice source is started if and
\* only if a Voice buffer exists and t is less than its duration, and a
\* started Voice source starts at buffer offset exactly t.
C5_VoiceStartedIffInsideBuffer ==
  [][\A t \in 0..VideoDur :
        PlayRanAt(t) =>
          /\ Running(nodes', "voice") # {}
                <=> (voiceBuffer # NoBuffer /\ t < voiceBuffer)
          /\ \A n \in Running(nodes', "voice") :
                n = voiceSourceRef' /\ nodes'[n].offset = t]_vars

\* C5 witness: play() ran past the end of the voice: the Voice source was
\* created but not started.
C5_Witness ==
  /\ isPlaying
  /\ voiceSourceRef # NoRef
  /\ nodes[voiceSourceRef].st = "created"
  /\ vTime >= voiceBuffer

\* C6: when play() runs with video time t and a Background buffer exists, a
\* looping Background source is started at offset t mod the buffer's
\* duration, whether or not the Voice source was started; without a
\* Background buffer no Background source is started.
C6_BackgroundStartedAtModulo ==
  [][\A t \in 0..VideoDur :
        PlayRanAt(t) =>
          IF bgBuffer = NoBuffer
          THEN Running(nodes', "bg") = {} /\ bgSourceRef' = NoRef
          ELSE /\ Running(nodes', "bg") = {bgSourceRef'}
               /\ nodes'[bgSourceRef'].offset = t % bgBuffer
               /\ nodes'[bgSourceRef'].loop]_vars

\* C6 witness: the video is past the end of the voice and of one round of
\* the music: the Voice source was not started, the Background source runs
\* from the wrapped offset.
C6_Witness ==
  /\ isPlaying
  /\ voiceSourceRef # NoRef /\ nodes[voiceSourceRef].st = "created"
  /\ bgSourceRef # NoRef /\ nodes[bgSourceRef].st = "running"
  /\ vTime >= bgBuffer
  /\ nodes[bgSourceRef].offset = vTime % bgBuffer

\* C7: pause() pauses the video element, stops and discards both source
\* instances (both refs become empty) and leaves the transport Stopped.
C7_PauseStopsEverything ==
  [][(ClickPause \/ performExportNoCapture) =>
        /\ vPaused'
        /\ voiceSourceRef' = NoRef /\ bgSourceRef' = NoRef
        /\ AllRunning(nodes') = {}
        /\ ~isPlaying']_vars

\* C7 witness: paused in mid-video, with a music buffer loaded and the
\* device running, and nothing left running.
C7_Witness ==
  /\ lastCall = "pause" /\ pendingPlays = <<>>
  /\ ctxState = "running" /\ bgBuffer # NoBuffer /\ vTime >= 1
  /\ vPaused /\ ~isPlaying /\ AllRunning(nodes) = {}

\* C8: whenever the video reaches its natural end, in preview or during an
\* export, both sources are stopped and the transport is Stopped, with the
\* same source and transport state as pause() would leave.
C8_NaturalEndMirrorsPause ==
  [][NaturalEnd => TS' = pause(TS)]_vars

\* C9: muting or unmuting a channel never changes its stored gain, nor does
\* any step taken while it is muted; the gain applied is 0 after a mute and
\* exactly the stored, pre-mute gain after an unmute.
C9_MuteIsReversibleOverlay ==
  [][\A ch \in Channels :
        (muted'[ch] # muted[ch] \/ muted[ch]) =>
          /\ volume'[ch] = volume[ch]
          /\ gainValue'[ch] = IF muted'[ch] THEN 0 ELSE volume[ch]]_vars

\* C9 witness: a channel moved off its initial gain is muted: the gain
\* applied is 0 and the stored gain is still there.
C9_Witness ==
  \E ch \in Channels :
     muted[ch] /\ volume[ch] = SliderMax[ch] /\ gainValue[ch] = 0

\* C10: in every reachable state the gain applied on each channel's gain
\* node is 0 if the channel is muted and its stored gain otherwise.
C10_EffectiveGain ==
  \A ch \in Channels :
     gainValue[ch] = IF muted[ch] THEN 0 ELSE volume[ch]

\* C10 witness: one channel muted over a non-zero stored gain while another
\* plays at the top of its range.
C10_Witness ==
  \E a, b \in Channels :
     /\ muted[a] /\ volume[a] > 0 /\ gainValue[a] = 0
     /\ ~muted[b] /\ gainValue[b] = SliderMax[b]

\* ------------------------------------------------------- export pipeline
\* C11: while an export is in flight (isRendering) no step attaches another
\* capture destination, starts another recorder or replaces the job, and a
\* download is triggered only by completing the job in flight, which ends it.
C11_OneExportJobInFlight ==
  [][isRendering =>
       /\ captureTaps' <= captureTaps
       /\ (recorder' = "recording" => recorder = "recording")
       /\ (job' # job => job' = NoJob)
       /\ (downloads' # downloads =>
             /\ recorder = "stopped"
             /\ Len(downloads') = Len(downloads) + 1
             /\ ~isRendering')]_vars

\* An export is recording while a further request would otherwise be
\* admissible: the player is ready and the run has exports to spare.
C11_Witness ==
  /\ isRendering /\ recorder = "recording"
  /\ isReady /\ voiceBuffer # NoBuffer
  /\ ExportsMade < MaxExports

\* C12: a video export on a platform without a frame-capture stream has no
\* side effects: it leaves no capture destination attached, creates no
\* recorder, and leaves the rendering flag and the target kind as they were.
C12_CaptureUnsupportedHasNoSideEffects ==
  [][performExportNoCapture =>
       /\ captureTaps' = captureTaps
       /\ recorder' = recorder
       /\ isRendering' = isRendering
       /\ renderType' = renderType]_vars

ExportRequest == \E type \in {"video", "audio"} : performExport(type)

ExportPlayRuns ==
  \/ (ExportRequest /\ ctxState = "running")
  \/ (PlayResume /\ Head(pendingPlays) = "export")

\* C14: the sources the export's play() starts are started from video time 0:
\* the Voice source at offset 0 and, when a Background buffer is held, the
\* Background source at offset 0.
C14_ExportStartsFromZero ==
  [][ExportPlayRuns =>
       /\ voiceSourceRef' # NoRef
       /\ nodes'[voiceSourceRef'].st = "running"
       /\ nodes'[voiceSourceRef'].offset = 0
       /\ bgBuffer # NoBuffer =>
            /\ bgSourceRef' # NoRef
            /\ nodes'[bgSourceRef'].offset = 0]_vars

\* C15: during an export the video's natural end stops the recorder, stops
\* the Voice and Background sources and leaves the job finalizing (recorder
\* stopped, completion callback still to come); and nothing but the natural
\* end stops the recorder.
C15_NaturalEndStopsRecorder ==
  [][/\ (NaturalEnd /\ isRendering /\ recorder = "recording") =>
          /\ recorder' = "stopped"
          /\ AllRunning(nodes') = {}
          /\ isRendering'
     /\ (recorder = "recording" /\ recorder' = "stopped") => NaturalEnd]_vars

\* C16: the recorder's completion callback triggers exactly one download,
\* named after the type of the export that built the recorder, detaches that
\* export's capture destination and returns the export state to idle.
C16_CompletionDownloadsAndDetaches ==
  [][recorderOnstop =>
       /\ Len(downloads') = Len(downloads) + 1
       /\ SubSeq(downloads', 1, Len(downloads)) = downloads
       /\ downloads'[Len(downloads')] =
            (IF renderType = "video" THEN "dubbed_video_export.webm"
             ELSE "dubbed_audio_mix.webm")
       /\ renderType = job.type
       /\ captureTaps' = captureTaps - 1
       /\ ~isRendering' /\ renderType' = "null" /\ recorder' = "none"]_vars

\* An audio export has completed after an earlier video export: both
\* downloads are there, no capture destination is attached, the state is idle.
C16_Witness ==
  /\ downloads = <<"dubbed_video_export.webm", "dubbed_audio_mix.webm">>
  /\ captureTaps = 0 /\ ~isRendering /\ recorder = "none"

\* C17: whenever no export is in flight, no capture destination is attached
\* to the gain nodes.
C17_IdleHasNoCaptureTap == ~isRendering => captureTaps = 0

\* C18: in every reachable state each of the three gain nodes is connected
\* to the listening-device output: attaching and detaching a capture
\* destination adds and removes an output, it never replaces that one.
C18_ListeningOutputAlwaysConnected == listening = Channels

\* One export was aborted and another ran to its download: a capture
\* destination was attached twice and detached once.
C18_Witness ==
  /\ listening = Channels
  /\ captureTaps = 1 /\ Len(downloads) = 1 /\ ~isRendering

\* C19: every export whose recorder has started eventually returns to idle
\* with its recorder gone, and a recorder goes away only as its download is
\* triggered.
C19_RecordingExportCompletes ==
  /\ (recorder = "recording") ~> (~isRendering /\ recorder = "none")
  /\ [][(recorder # "none" /\ recorder' = "none") =>
          Len(downloads') = Len(downloads) + 1]_vars

\* An export has played the video to its end, its recorder has stopped and
\* delivered its completion callback: one download, idle again.
C19_Witness ==
  /\ ~isRendering /\ recorder = "none" /\ Len(downloads) = 1
  /\ onended = "plain" /\ vTime = VideoDur /\ vPaused
  /\ pendingPlays = <<>>

\* ------------------------------------------------------ background decode
\* The body of a preview play() runs: at the click when the audio device
\* runs, after resume() when it was suspended.
PreviewPlayRuns == (ClickPlay /\ ctxState = "running") \/ PlayResume

\* C20: when the decode of the chosen background file fails, no Background
\* buffer is held afterwards, and a play() that follows starts no Background
\* source.
C20_FailedDecodeLeavesBackgroundEmpty ==
  [][/\ (loadBg("bad") /\ bgFile = "bad") => bgBuffer' = NoBuffer
     /\ (PreviewPlayRuns /\ bgFile = "bad" /\ "bad" \notin bgDecoding) =>
          /\ isPlaying'
          /\ bgSourceRef' = NoRef
          /\ Running(nodes', "bg") = {}]_vars

\* ------------------------------------------------------- voice and ready
\* C21: the transport is never Playing, and no export is in flight, while no
\* Voice buffer has been decoded.
C21_NoPlayingWithoutVoice ==
  (isPlaying \/ isRendering \/ recorder # "none") => voiceBuffer # NoBuffer

\* ------------------------------------------------------ source instances
\* C22: every source instance that exists has been started at most once: a
\* running or ended instance exactly once, one that was only created never.
\* A stopped instance is discarded with its only reference and exists no
\* more.
C22_SourcesAreSingleUse ==
  \A n \in NodeIds :
    nodes[n].starts = (IF nodes[n].st \in {"running", "ended"} THEN 1 ELSE 0)

\* A seek while playing has replaced both running instances by new ones,
\* each started once, at the new offset.
C22_Witness ==
  /\ isPlaying /\ lastCall = "seek" /\ pendingPlays = <<>>
  /\ vTime = 1
  /\ voiceSourceRef # NoRef /\ bgSourceRef # NoRef
  /\ nodes[voiceSourceRef].starts = 1 /\ nodes[voiceSourceRef].offset = 1
  /\ nodes[bgSourceRef].starts = 1 /\ nodes[bgSourceRef].offset = 1

\* -------------------------------------------------------- original audio
\* C23: at most one media-element source is ever created on the video
\* element, the ref is set exactly when there is one, a run of the binding
\* effect after a successful binding changes nothing, and no run lets an
\* exception out.
C23_OriginalBoundAtMostOnce ==
  /\ [](/\ binding.sources <= 1
        /\ binding.ref <=> binding.sources = 1
        /\ ~binding.raised)
  /\ [][(bindOriginalEffect /\ binding.ref) =>
          binding' = [binding EXCEPT !.attempts = @ + 1]]_vars

\* A first run of the effect failed, the next one bound the element, and
\* the effect has run once more since.
C23_Witness ==
  /\ binding.ref /\ binding.sources = 1
  /\ binding.failures = 1 /\ binding.attempts = 3

\* ------------------------------------------------------- suspended device
\* C24: no source runs while the audio device is suspended; a play() invoked
\* on a suspended device touches neither the sources nor the video before
\* resume() has resolved; and once resume() has resolved the rest of play()
\* runs to its end: the device runs, a decoded voice buffer gets its source
\* and the transport is playing.
C24_ResumeBeforeStart ==
  /\ [](ctxState = "suspended" => AllRunning(nodes) = {})
  /\ [][/\ (ClickPlay /\ ctxState = "suspended") =>
             /\ TS' = TS
             /\ pendingPlays' = Append(pendingPlays, "click")
             /\ ctxState' = "suspended"
        /\ PlayResume =>
             /\ ctxState' = "running"
             /\ isPlaying' /\ ~vPaused'
             /\ voiceBuffer # NoBuffer => voiceSourceRef' # NoRef]_vars

\* play() was invoked on a suspended device and is waiting on resume():
\* nothing has been torn down or started.
C24_Witness ==
  /\ ctxState = "suspended" /\ pendingPlays = <<"click">>
  /\ lastCall = "play" /\ ~isPlaying /\ vPaused
  /\ isReady /\ AllRunning(nodes) = {}

\* ------------------------------------------------------------ WAV header
\* The little-endian unsigned 32-bit field at byte offset `offset` of buf.
fieldU32(buf, offset) ==
  U32(buf[offset + 3] + 256 * buf[offset + 4],
      buf[offset + 1] + 256 * buf[offset + 2])

\* The little-endian unsigned 16-bit field at byte offset `offset` of buf.
fieldU16(buf, offset) == buf[offset + 1] + 256 * buf[offset + 2]

\* Half of an even 32-bit value.
HalfU32(w) == U32(w.hi \div 2, (w.hi % 2) * 32768 + w.lo \div 2)

\* C25: for every sample rate R and every even PCM length L, the header of
\* createWavBlob(bytes, R) read back as little-endian 32-bit fields gives
\* RIFF size 36 + L at offset 4, sample rate R at offset 24, data size L at
\* offset 40, and at offset 28 a byte rate that is twice R in 32 bits: an
\* even value whose half is R without its top bit, hence exactly 2R for
\* every R below 2^31.
C25_HeaderRoundTrip ==
  ("wav" \in codec.ran /\ Len(codec.data) % 2 = 0) =>
    LET L == Len(codec.data)
        R == codec.rate
        byteRate == fieldU32(codec.wav, 28)
    IN /\ fieldU32(codec.wav, 4) = U32(0, 36 + L)
       /\ fieldU32(codec.wav, 40) = U32(0, L)
       /\ fieldU32(codec.wav, 24) = R
       /\ byteRate.lo % 2 = 0
       /\ HalfU32(byteRate) = U32(R.hi % 32768, R.lo)
       /\ R.hi < 32768 =>
            /\ byteRate.lo = (2 * R.lo) % 65536
            /\ byteRate.hi = 2 * R.hi + (2 * R.lo) \div 65536

\* Four bytes of PCM were encoded at 44100 Hz; the byte rate reads 88200,
\* which is 1 * 65536 + 22664.
C25_Witness ==
  /\ "wav" \in codec.ran
  /\ Len(codec.data) = 4
  /\ codec.rate = U32(0, 44100)
  /\ fieldU32(codec.wav, 28) = U32(1, 22664)
  /\ fieldU32(codec.wav, 4) = U32(0, 40)

\* --------------------------------------------------------- WAV container
\* The bytes of buf from byte offset `offset` on, `n` of them.
bytesAt(buf, offset, n) == [i \in 1..n |-> buf[offset + i]]

\* C26: the blob of createWavBlob(bytes, R) is 44 + L bytes long; it has
\* 'RIFF' at offset 0, 'WAVE' at 8, 'fmt ' at 12 and 'data' at 36; the fmt
\* sub-chunk says size 16, format 1, 1 channel, block align 2 and 16 bits
\* per sample; the bytes from offset 44 on are the input bytes in order; and
\* the call leaves the input buffer as it was.
C26_CanonicalContainer ==
  /\ []("wav" \in codec.ran =>
          LET L == Len(codec.data)
              wav == codec.wav
          IN /\ Len(wav) = 44 + L
             /\ bytesAt(wav, 0, 4) = <<82, 73, 70, 70>>
             /\ bytesAt(wav, 8, 4) = <<87, 65, 86, 69>>
             /\ bytesAt(wav, 12, 4) = <<102, 109, 116, 32>>
             /\ bytesAt(wav, 36, 4) = <<100, 97, 116, 97>>
             /\ fieldU32(wav, 16) = U32(0, 16)
             /\ fieldU16(wav, 20) = 1
             /\ fieldU16(wav, 22) = 1
             /\ fieldU16(wav, 32) = 2
             /\ fieldU16(wav, 34) = 16
             /\ bytesAt(wav, 44, L) = codec.data)
  /\ [][callCreateWavBlob => codec'.data = codec.data]_vars

\* Three bytes were encoded: the blob is 47 bytes long and ends with them.
C26_Witness ==
  /\ "wav" \in codec.ran
  /\ codec.data = <<1, 128, 255>>
  /\ Len(codec.wav) = 47
  /\ bytesAt(codec.wav, 44, 3) = <<1, 128, 255>>

\* ----------------------------------------------------------- voice decode
\* C27: for every voice buffer of even length L, decodeAudioData yields a
\* buffer of one channel with L / 2 samples, sample i being the signed
\* little-endian 16-bit value of bytes 2i and 2i + 1 over 32768, between -1
\* and 1.
C27_DecodeEveryEvenLength ==
  ("decoded" \in codec.ran /\ Len(codec.data) % 2 = 0) =>
    LET d == codec.decoded
        L == Len(codec.data)
    IN /\ d.ok
       /\ d.numberOfChannels = 1
       /\ Len(d.channelData) = L \div 2
       /\ \A i \in 1..(L \div 2) :
            LET u == codec.data[2 * i - 1] + 256 * codec.data[2 * i]
                v == d.channelData[i]
            IN /\ v.den = 32768
               /\ v.num = IF u < 32768 THEN u ELSE u - 65536
               /\ -v.den <= v.num /\ v.num <= v.den

\* The same for the voice buffers that hold at least one frame.
C27_DecodeNonEmptyEvenLength ==
  Len(codec.data) > 0 => C27_DecodeEveryEvenLength

\* ------------------------------------------------------- malformed voice
\* C28: decodeAudioData fails on a voice buffer of odd length, and the
\* decodeTTS call that was given it installs no voice buffer, leaves a voice
\* buffer installed before as it was, and does not change whether the
\* player is ready.
C28_OddLengthVoiceIsDropped ==
  [][(decodeTTS /\ Len(audioData) % 2 = 1) =>
       /\ ~decodeAudioData(audioData).ok
       /\ decodeAudioData(audioData).error = "RangeError"
       /\ voiceBuffer' = voiceBuffer
       /\ isReady' = isReady
       /\ ~voiceDecoding']_vars

\* The voice the player was mounted with is decoded; a later voice result of
\* three bytes has been through decodeTTS and the first buffer is still the
\* one installed.
C28_Witness ==
  /\ audioData = <<0, 0, 1>>
  /\ ~voiceDecoding
  /\ voiceBuffer = VoiceDur
  /\ isReady

\* ------------------------------------------------------------ gain ranges
\* The documented range of each channel, in slider steps of 0.05:
\* 0 to 1.5, 0 to 1, 0 to 1.
GainRange == [voice |-> 0..30, bg |-> 0..20, original |-> 0..20]

\* C29: in every reachable state each channel's stored volume lies in the
\* documented range of the channel, and so does the gain applied to the
\* channel, which therefore never exceeds the top of the range.
C29_GainsInRange ==
  \A ch \in Channels :
    /\ volume[ch] \in GainRange[ch]
    /\ gainValue[ch] \in GainRange[ch]

\* Every slider has been moved to the top of its range, with nothing muted.
C29_Witness ==
  /\ volume = [voice |-> 30, bg |-> 20, original |-> 20]
  /\ gainValue = volume
  /\ \A ch \in Channels : ~muted[ch]
  /\ bgFile # NoFile

\* The player as mounted: 1, 0.2 and 0.5.
C29_WitnessInitial ==
  /\ volume = [voice |-> 20, bg |-> 4, original |-> 10]
  /\ gainValue = volume

\* ------------------------------------------------------ seek while stopped
\* C30: a handleSeek(t) made while the transport is stopped sets the video's
\* time to t and nothing else: the buffer sources and their refs, the
\* video's paused flag, the play() calls in waiting, the stopped transport
\* and the volumes, mute flags and gains are all as before.
C30_SeekWhileStoppedOnlyMovesVideo ==
  [][\A t \in 0..VideoDur :
       (handleSeek(t) /\ ~isPlaying) =>
         /\ vTime' = t
         /\ nodes' = nodes
         /\ voiceSourceRef' = voiceSourceRef /\ bgSourceRef' = bgSourceRef
         /\ vPaused' = vPaused
         /\ pendingPlays' = pendingPlays
         /\ ~isPlaying'
         /\ volume' = volume /\ muted' = muted /\ gainValue' = gainValue]_vars

\* The player is ready and has never been played, yet the video stands at
\* its last tick: no source exists and the video is paused.
C30_Witness ==
  /\ isReady /\ ~isPlaying /\ vPaused
  /\ lastCall = "none" /\ pendingPlays = <<>>
  /\ vTime = VideoDur
  /\ nodes = [n \in NodeIds |-> NoNode]
  /\ voiceSourceRef = NoRef /\ bgSourceRef = NoRef

\* ----------------------------------------------------- channel independence
\* C31: a slider change or a mute toggle on one channel leaves the stored
\* volume, the muted flag and the applied gain of the two other channels as
\* they were, and leaves every buffer source, the transport and the export
\* untouched.
C31_ChannelsAreIndependent ==
  [][\A ch \in Channels :
       ((\E v \in SliderValues(ch) : setVolume(ch, v)) \/ toggleMute(ch)) =>
         /\ \A other \in Channels \ {ch} :
              /\ volume'[other] = volume[other]
              /\ muted'[other] = muted[other]
              /\ gainValue'[other] = gainValue[other]
         /\ nodes' = nodes
         /\ voiceSourceRef' = voiceSourceRef /\ bgSourceRef' = bgSourceRef
         /\ TS' = TS
         /\ pendingPlays' = pendingPlays
         /\ isRendering' = isRendering /\ renderType' = renderType
         /\ recorder' = recorder /\ captureTaps' = captureTaps
         /\ downloads' = downloads /\ job' = job]_vars

\* While both sources run, the voice slider stands at 0 and the original
\* audio is muted; the music channel is as it was mounted.
C31_Witness ==
  /\ isPlaying
  /\ Running(nodes, "voice") # {} /\ Running(nodes, "bg") # {}
  /\ volume = [voice |-> 0, bg |-> 4, original |-> 10]
  /\ muted = [voice |-> FALSE, bg |-> FALSE, original |-> TRUE]
  /\ gainValue = [voice |-> 0, bg |-> 4, original |-> 0]

\* ----------------------------------------------------- stopped is silent
\* C32: in every reachable state in which the transport is stopped and no
\* play() is waiting on resume(), no voice or background source is running,
\* however the transport came to be stopped.
C32_StoppedHasNoRunningSource ==
  (~isPlaying /\ pendingPlays = <<>>) => AllRunning(nodes) = {}

\* ------------------------------------------------- background decode races
\* C33: once no background decode is pending, the background buffer held is
\* the decode of the file chosen last, whatever the order in which the
\* decodes finished.  (Stated for a last file the decoder accepts; C20 is
\* about the other ones.)
C33_LatestBackgroundWins ==
  (bgDecoding = {} /\ bgFile # NoFile /\ Decodable(bgFile)) =>
     bgBuffer = BgDur(bgFile)

\* ------------------------------------------------------ stale voice decode
\* C34: a decodeTTS call that finishes after its voice data has been
\* replaced installs nothing; the voice buffer changes only in the step in
\* which the decode of the current voice data finishes, and then it is the
\* decode of that data.
C34_StaleVoiceDecodeIsDropped ==
  [][/\ decodeTTSStale => (voiceBuffer' = voiceBuffer /\ isReady' = isReady)
     /\ voiceBuffer' # voiceBuffer =>
          /\ voiceDecoding /\ ~voiceDecoding'
          /\ audioData' = audioData
          /\ decodeAudioData(audioData).ok
          /\ voiceBuffer' = Len(audioData) \div 2]_vars

\* The voice the player was mounted with was replaced, before it had
\* decoded, by a result that does not decode; both calls have finished and
\* the player holds no voice buffer: the decode of the first voice, which
\* is valid, finished stale and was dropped.
C34_Witness ==
  /\ audioData = <<0, 0, 1>>
  /\ ~voiceDecoding /\ staleDecodes = {}
  /\ voiceBuffer = NoBuffer /\ ~isReady
  /\ decodeAudioData(InitAudio).ok

\* --------------------------------------------------------------- teardown
\* C35: once the player has been unmounted no voice or background source
\* is running and no recorder is recording.
C35_TeardownStopsEverything ==
  ~mounted => (AllRunning(nodes) = {} /\ recorder # "recording")

\* ------------------------------------------------------------ app workflow
\* C36: whenever the app is READY a video file is selected and the result
\* held was produced by a request made for that video file.
C36_ReadyHasResultOfSelectedVideo ==
  app.state = "READY" =>
    /\ app.videoFile # NoVideo
    /\ app.result # NoResult
    /\ app.result.video = app.videoFile

\* C37: when a service step of a dubbing request fails, handleError has
\* thrown (the service method did not return), the request is over, and the
\* app is in ERROR with an error message that is neither null nor empty and
\* with the result it held before.
C37_FailedRequestEndsInError ==
  [][\A r \in app.requests :
       /\ \A e \in ErrorInputs :
            serviceFails(r, e) =>
              /\ handleError(e, Context(r.step)).threw
              /\ app'.errorMsg = handleError(e, Context(r.step)).message
              /\ app'.errorMsg \notin {"null", "undefined", ""}
              /\ app'.state = "ERROR"
              /\ app'.result = app.result
              /\ r \notin app'.requests
       /\ parseFails(r) =>
              /\ app'.errorMsg \notin {"null", "undefined", ""}
              /\ app'.state = "ERROR"
              /\ app'.result = app.result
              /\ r \notin app'.requests]_vars

\* A first request produced a result; the request made after it failed in
\* speech generation with an error handleError does not recognise: the app
\* is in ERROR and still holds the first result.
C37_Witness ==
  /\ app.state = "ERROR"
  /\ app.errorMsg = "Failed to generate speech."
  /\ app.result = [video |-> "v1", request |-> 1]
  /\ app.started = 2 /\ app.requests = {}

\* ------------------------------------------------------ recorder stopped once
\* C38: the end handler of an export runs only while the recorder of its
\* job is recording: it stops that recorder and is replaced by the plain
\* handler in the same step.  A recorder is stopped by that handler only,
\* and a download is made only by the completion callback of a stopped
\* recorder, one per stop.
C38_RecorderStoppedAtMostOnce ==
  [][/\ (NaturalEnd /\ onended = "export") =>
          /\ recorder = "recording"
          /\ recorder' = "stopped"
          /\ onended' = "plain"
          /\ downloads' = downloads
     /\ recorder' = "stopped" =>
          \/ recorder = "stopped"
          \/ NaturalEnd /\ onended = "export"
     /\ downloads' # downloads =>
          /\ recorder = "stopped" /\ recorder' = "none"
          /\ Len(downloads') = Len(downloads) + 1]_vars

\* An export has been downloaded; the video was then replayed, with a seek
\* on the way, and has come to its end a second time: the plain handler ran,
\* no recorder exists and there is still one download.
C38_Witness ==
  /\ Len(downloads) = 1 /\ recorder = "none" /\ ~isRendering
  /\ onended = "plain"
  /\ lastCall = "seek" /\ pendingPlays = <<>>
  /\ ~isPlaying /\ vPaused /\ vTime = VideoDur
  /\ bgBuffer # NoBuffer
  /\ nodes = [n \in NodeIds |-> NoNode]

====
